---- MODULE Spec2Model ----
(***************************************************************************)
(* A model of the falcon-exchange matching core: Order, PriceLevel,        *)
(* OrderBook, LockFreeQueue (EventQueue) and MatchingEngine.               *)
(*                                                                         *)
(* Orders live in the sequence `orders`, indexed by their (unique) id; a   *)
(* std::shared_ptr<Order> is the id.  A std::map<int64_t, PriceLevel> is a *)
(* function whose DOMAIN is the set of keys present.                       *)
(***************************************************************************)
EXTENDS Integers, Sequences, FiniteSets, TLC

(***************************************************************************)
(* Bounds of the model.                                                    *)
(***************************************************************************)
\* number of Order objects the clients create (ids 1..MaxOrders)
MaxOrders == 3
\* number of cancel requests the clients make: cancel_order() and
\* replace_order() calls together
MaxCancels == 1
\* largest order quantity
MaxQty == 2
\* log2 of the ring-buffer size (EventQueue is LockFreeQueue<65536>)
QBits == 2
\* number of start()/stop() cycles of the engine
MaxStops == 1
\* number of events the producer of the queue-only specification pushes
MaxPush == 5
\* number of stop() calls that find the engine running in the specification of
\* the engine's life cycle, and the number of orders its client submits
MaxCycles == 2
MaxLifeOrders == 2
\* number of cancel requests the client makes under the fair scheduler
MaxDrainCancels == 3

Size == 2 ^ QBits

\* limit prices in ticks; a MARKET order carries price 0 (tests, main.cpp)
Prices == {1, 2}
MarketPrice == 0
Quantities == 1 .. MaxQty
\* the engine's symbol and a foreign one
EngineSymbol == "AAPL"
Symbols == {"AAPL", "MSFT"}

VARIABLES
    \* ---- the clients' Order objects (shared with the engine)
    orders,
    \* ---- OrderBook
    bids, asks, sequence_counter,
    \* ---- LockFreeQueue
    head, tail, buffer,
    \* ---- MatchingEngine
    running, trade_id_counter, stats,
    \* ---- threads: the worker (engine_thread_) and the control thread in stop()
    worker, control,
    \* ---- observations: what the callbacks and the callers have seen
    trades, updates, log, ret, cancels, stops,
    \* ---- the two threads of the queue-only specification
    prod, cons, pushed, popped,
    \* ---- the push inside stop(), load by load and store by store
    shut

vars == << orders, bids, asks, sequence_counter, head, tail, buffer,
           running, trade_id_counter, stats, worker, control,
           trades, updates, log, ret, cancels, stops,
           prod, cons, pushed, popped, shut >>

(***************************************************************************)
(* Small helpers.                                                          *)
(***************************************************************************)
Min2(a, b) == IF a <= b THEN a ELSE b
MaxOf(S) == CHOOSE x \in S : \A y \in S : y <= x
MinOf(S) == CHOOSE x \in S : \A y \in S : x <= y

\* std::optional<int64_t>
nullopt == [has_value |-> FALSE, value |-> 0]
Some(v) == [has_value |-> TRUE, value |-> v]

\* std::map: the empty map, insertion of a key, erasure of a key
EmptyMap == [p \in {} |-> 0]
MapPut(m, k, v) == [p \in (DOMAIN m) \cup {k} |-> IF p = k THEN v ELSE m[p]]
MapErase(m, k) == [p \in (DOMAIN m) \ {k} |-> m[p]]

\* i & (Size - 1) for 0 <= i: Size is a power of two, so the mask keeps the
\* low QBits bits
Mask(i) == i % Size

RECURSIVE SeqSum(_)
SeqSum(s) == IF s = << >> THEN 0 ELSE Head(s) + SeqSum(Tail(s))

\* the sequence s without its first element equal to x
RECURSIVE EraseFirst(_, _)
EraseFirst(s, x) ==
    IF s = << >> THEN << >>
    ELSE IF Head(s) = x THEN Tail(s)
    ELSE << Head(s) >> \o EraseFirst(Tail(s), x)

(***************************************************************************)
(* order.hpp                                                               *)
(***************************************************************************)
Order(id, symbol, side, type, price, quantity) ==
    [ id |-> id, symbol |-> symbol, side |-> side, type |-> type,
      price |-> price, quantity |-> quantity, filled_quantity |-> 0,
      status |-> "NEW", sequence_number |-> 0 ]

remaining_quantity(o) == o.quantity - o.filled_quantity

\* an order that counts as filled after its first fill
is_filled_any(o) == o.filled_quantity > 0

is_filled(o) == o.filled_quantity >= o.quantity

is_active(o) == o.status = "NEW" \/ o.status = "PARTIALLY_FILLED"

(***************************************************************************)
(* price_level.hpp.  A level is [price, total_quantity, orders], `orders`  *)
(* the deque of order ids, oldest first.  `os` is the orders' state.       *)
(***************************************************************************)
PriceLevel(price) == [ price |-> price, total_quantity |-> 0, orders |-> << >> ]

PriceLevel_add_order(level, o) ==
    [ level EXCEPT !.orders = Append(@, o.id),
                   !.total_quantity = @ + remaining_quantity(o) ]

\* remove_order that leaves the level's total as it was
PriceLevel_remove_order_keep_total(level, os, id) ==
    [ level EXCEPT !.orders = EraseFirst(@, id) ]

\* erases the first order of the deque whose id is `id`, if any
PriceLevel_remove_order(level, os, id) ==
    IF \E i \in 1 .. Len(level.orders) : level.orders[i] = id
    THEN [ level EXCEPT !.total_quantity = @ - remaining_quantity(os[id]),
                        !.orders = EraseFirst(@, id) ]
    ELSE level

\* a level served newest first
front_order_newest(level) ==
    IF level.orders = << >> THEN 0 ELSE level.orders[Len(level.orders)]

\* the id of the oldest order, 0 (nullptr) if the level is empty
front_order(level) == IF level.orders = << >> THEN 0 ELSE Head(level.orders)

PriceLevel_empty(level) == level.orders = << >>

\* a level whose total is not adjusted after a match
update_total_quantity_ignored(level, delta) == level

update_total_quantity(level, delta) ==
    [ level EXCEPT !.total_quantity = @ + delta ]

\* the order with that id in the level, 0 (nullptr) if there is none
find_order(level, order_id) ==
    IF \E i \in 1 .. Len(level.orders) : level.orders[i] = order_id
    THEN order_id ELSE 0

(***************************************************************************)
(* order_book.hpp.  The operators take and return the engine state `st`,   *)
(* a record of the variables the worker thread owns.                       *)
(***************************************************************************)
best_bid(st) == IF DOMAIN st.bids = {} THEN nullopt ELSE Some(MaxOf(DOMAIN st.bids))

best_ask(st) == IF DOMAIN st.asks = {} THEN nullopt ELSE Some(MinOf(DOMAIN st.asks))

\* get_best_bid_level / get_best_ask_level: the pointer to a level is its
\* key; nullopt is nullptr
get_best_bid_level(st) ==
    IF DOMAIN st.bids = {} THEN nullopt ELSE Some(MaxOf(DOMAIN st.bids))

\* the ask level farthest from the touch
get_best_ask_level_highest(st) ==
    IF DOMAIN st.asks = {} THEN nullopt ELSE Some(MaxOf(DOMAIN st.asks))

get_best_ask_level(st) ==
    IF DOMAIN st.asks = {} THEN nullopt ELSE Some(MinOf(DOMAIN st.asks))

\* OrderBook::DepthLevel of a level
DepthLevel(level) ==
    [ price |-> level.price, quantity |-> level.total_quantity,
      order_count |-> Len(level.orders) ]

\* the loop of get_bid_depth: `keys` are the keys the reverse iterator has not
\* passed, i the loop counter, depth the vector so far
RECURSIVE bid_depth_loop(_, _, _, _, _)
bid_depth_loop(side, keys, i, max_levels, depth) ==
    IF i < max_levels /\ keys # {}
    THEN bid_depth_loop(side, keys \ {MaxOf(keys)}, i + 1, max_levels,
                        Append(depth, DepthLevel(side[MaxOf(keys)])))
    ELSE depth

\* the loop of get_ask_depth, with a forward iterator
RECURSIVE ask_depth_loop(_, _, _, _, _)
ask_depth_loop(side, keys, i, max_levels, depth) ==
    IF i < max_levels /\ keys # {}
    THEN ask_depth_loop(side, keys \ {MinOf(keys)}, i + 1, max_levels,
                        Append(depth, DepthLevel(side[MinOf(keys)])))
    ELSE depth

\* a bid depth read from begin() on
get_bid_depth_ascending(st, max_levels) ==
    ask_depth_loop(st.bids, DOMAIN st.bids, 0, max_levels, << >>)

get_bid_depth(st, max_levels) ==
    bid_depth_loop(st.bids, DOMAIN st.bids, 0, max_levels, << >>)

get_ask_depth(st, max_levels) ==
    ask_depth_loop(st.asks, DOMAIN st.asks, 0, max_levels, << >>)

add_to_side(side, o) ==
    MapPut(side, o.price,
           PriceLevel_add_order(IF o.price \in DOMAIN side THEN side[o.price]
                                ELSE PriceLevel(o.price), o))

\* a level that stays in its map when it is empty
EraseIfEmpty_never(side, p, level) == MapPut(side, p, level)

\* `if (it->second.empty()) side.erase(it)` for the level now worth `level`
EraseIfEmpty(side, p, level) ==
    IF PriceLevel_empty(level) THEN MapErase(side, p) ELSE MapPut(side, p, level)

remove_from_side(side, os, id) ==
    IF os[id].price \in DOMAIN side
    THEN EraseIfEmpty(side, os[id].price,
                      PriceLevel_remove_order(side[os[id].price], os, id))
    ELSE side

\* `order->sequence_number = ++sequence_counter_`
Sequenced(st, id) ==
    [ st EXCEPT !.sequence_counter = @ + 1,
                !.orders[id].sequence_number = st.sequence_counter + 1,
                !.log.inserted = Append(@, id) ]

AddToOwnSide(st, id) ==
    IF st.orders[id].side = "BUY"
    THEN [ st EXCEPT !.bids = add_to_side(@, st.orders[id]) ]
    ELSE [ st EXCEPT !.asks = add_to_side(@, st.orders[id]) ]

\* add_order that takes its sequence number before it looks at the symbol
add_order_sequenced_first(st, id) ==
    IF st.orders[id].symbol # EngineSymbol
    THEN [ ok |-> FALSE, st |-> [ st EXCEPT !.sequence_counter = @ + 1 ] ]
    ELSE [ ok |-> TRUE, st |-> AddToOwnSide(Sequenced(st, id), id) ]

\* OrderBook::add_order: [ok, st]
add_order(st, id) ==
    IF st.orders[id].symbol # EngineSymbol
    THEN [ ok |-> FALSE, st |-> st ]
    ELSE [ ok |-> TRUE, st |-> AddToOwnSide(Sequenced(st, id), id) ]

\* remove_order looking on the wrong side of the book
remove_order_wrong_side(st, id) ==
    IF st.orders[id].side = "BUY"
    THEN [ st EXCEPT !.asks = remove_from_side(@, st.orders, id) ]
    ELSE [ st EXCEPT !.bids = remove_from_side(@, st.orders, id) ]

remove_order(st, id) ==
    IF st.orders[id].side = "BUY"
    THEN [ st EXCEPT !.bids = remove_from_side(@, st.orders, id) ]
    ELSE [ st EXCEPT !.asks = remove_from_side(@, st.orders, id) ]

\* the status of order id becomes `status`; a change of status is logged
SetStatus(st, id, status) ==
    IF st.orders[id].status = status THEN st
    ELSE [ st EXCEPT !.orders[id].status = status,
                     !.log.status_changes =
                         Append(@, [ id |-> id, from |-> st.orders[id].status,
                                     to |-> status ]) ]

\* the keys of `side` whose level holds order_id; both loops of cancel_order
\* walk their map from begin() on and stop at the first such level
FoundIn(side, order_id) == { p \in DOMAIN side : find_order(side[p], order_id) # 0 }

\* the body of the loops of cancel_order at the level found, after
\* `order->status = CANCELLED`
CancelAt(side, os, order_id, p) ==
    EraseIfEmpty(side, p, PriceLevel_remove_order(side[p], os, order_id))

CancelBid(st, order_id) ==
    [ st EXCEPT !.bids = CancelAt(@, st.orders, order_id,
                                  MinOf(FoundIn(st.bids, order_id))) ]

CancelAsk(st, order_id) ==
    [ st EXCEPT !.asks = CancelAt(@, st.orders, order_id,
                                  MinOf(FoundIn(st.asks, order_id))) ]

\* OrderBook::cancel_order: [ok, st]
cancel_order(st, order_id) ==
    IF FoundIn(st.bids, order_id) # {}
    THEN [ ok |-> TRUE,
           st |-> CancelBid(SetStatus(st, order_id, "CANCELLED"), order_id) ]
    ELSE IF FoundIn(st.asks, order_id) # {}
    THEN [ ok |-> TRUE,
           st |-> CancelAsk(SetStatus(st, order_id, "CANCELLED"), order_id) ]
    ELSE [ ok |-> FALSE, st |-> st ]

(***************************************************************************)
(* matching_engine.hpp                                                     *)
(***************************************************************************)
Trade(trade_id, buy_order_id, sell_order_id, price, quantity) ==
    [ trade_id |-> trade_id, symbol |-> EngineSymbol,
      buy_order_id |-> buy_order_id, sell_order_id |-> sell_order_id,
      price |-> price, quantity |-> quantity ]

\* can_match with strict comparisons: an order at the touch does not match
can_match_strict(st, id) ==
    IF st.orders[id].side = "BUY"
    THEN IF ~best_ask(st).has_value THEN FALSE
         ELSE st.orders[id].type = "MARKET"
              \/ st.orders[id].price > best_ask(st).value
    ELSE IF ~best_bid(st).has_value THEN FALSE
         ELSE st.orders[id].type = "MARKET"
              \/ st.orders[id].price < best_bid(st).value

can_match(st, id) ==
    IF st.orders[id].side = "BUY"
    THEN IF ~best_ask(st).has_value THEN FALSE
         ELSE st.orders[id].type = "MARKET"
              \/ st.orders[id].price >= best_ask(st).value
    ELSE IF ~best_bid(st).has_value THEN FALSE
         ELSE st.orders[id].type = "MARKET"
              \/ st.orders[id].price <= best_bid(st).value

\* a fill that reports the order to the order-update callback
FillStatus_notified(st, id) ==
    [ SetStatus(st, id, IF is_filled(st.orders[id]) THEN "FILLED"
                        ELSE "PARTIALLY_FILLED")
          EXCEPT !.updates = Append(@, st.orders[id]) ]

\* `if (o->is_filled()) FILLED else PARTIALLY_FILLED`
FillStatus(st, id) ==
    SetStatus(st, id, IF is_filled(st.orders[id]) THEN "FILLED"
                      ELSE "PARTIALLY_FILLED")

\* a map as code that walks it sees it: every level with its Order objects
BookView(side, os) ==
    [ p \in DOMAIN side |->
        [ price |-> side[p].price, total_quantity |-> side[p].total_quantity,
          orders |-> [ i \in 1 .. Len(side[p].orders) |-> os[side[p].orders[i]] ] ] ]

\* a trade the statistics do not count
EmitTrade_uncounted(st, buy_order, sell_order, price, quantity) ==
    [ st EXCEPT !.trade_id_counter = @ + 1,
                !.trades = Append(@, Trade(st.trade_id_counter + 1, buy_order,
                                           sell_order, price, quantity)) ]

\* `++trade_id_counter_`, the Trade, the statistics and the trade callback;
\* the callback gets the trade here, before try_match updates the level:
\* log.at_trade keeps the book as it is during the callback
EmitTrade(st, buy_order, sell_order, price, quantity) ==
    [ st EXCEPT !.trade_id_counter = @ + 1,
                !.stats.trades_executed = @ + 1,
                !.trades = Append(@, Trade(st.trade_id_counter + 1, buy_order,
                                           sell_order, price, quantity)),
                !.log.at_trade =
                    Append(@, [ bids |-> BookView(st.bids, st.orders),
                                asks |-> BookView(st.asks, st.orders) ]) ]

\* a trade that fills the buy order alone
execute_trade_buy_only(st, buy_order, sell_order, price, quantity) ==
    EmitTrade(
        FillStatus(
            [ st EXCEPT !.orders[buy_order].filled_quantity = @ + quantity ],
            buy_order),
        buy_order, sell_order, price, quantity)

\* both filled quantities grow, then the buy order's status is set, then the
\* sell order's
execute_trade(st, buy_order, sell_order, price, quantity) ==
    EmitTrade(
        FillStatus(
            FillStatus(
                [ st EXCEPT !.orders[buy_order].filled_quantity = @ + quantity,
                            !.orders[sell_order].filled_quantity = @ + quantity ],
                buy_order),
            sell_order),
        buy_order, sell_order, price, quantity)

\* a match at the aggressor's price
match_price_incoming(incoming, resting) == incoming.price

\* a match of the aggressor's whole remainder
match_quantity_incoming(incoming, resting) == remaining_quantity(incoming)

\* "Match at resting order price"
match_price(incoming, resting) == resting.price

match_quantity(incoming, resting) ==
    Min2(remaining_quantity(incoming), remaining_quantity(resting))

NoMatch(st) == [ matched |-> FALSE, st |-> st ]

\* what one match did: the MatchResult, with the incoming order
LogMatch(st, incoming, resting, price, quantity) ==
    [ st EXCEPT !.log.matches =
          Append(@, [ incoming |-> incoming, resting |-> resting,
                      price |-> price, quantity |-> quantity,
                      event |-> st.log.events + 1 ]) ]

\* `ask_level->empty()` / `bid_level->empty()` after remove_order: the level the
\* pointer names may have been erased from its map.  Such a read is undefined;
\* whatever it returns, the `if` it guards has an empty body, so the engine
\* goes on from the same state.  log.stale_level_reads counts these reads.
StaleRead(st, side, p) ==
    IF p \in DOMAIN side THEN st ELSE [ st EXCEPT !.log.stale_level_reads = @ + 1 ]

\* try_match, incoming BUY: "Remove resting order if filled"
RemoveFilledAsk(st, rid, p) ==
    IF is_filled(st.orders[rid])
    THEN StaleRead(remove_order(st, rid), remove_order(st, rid).asks, p)
    ELSE st

\* try_match, incoming BUY, from "Execute trade" on
TradeWithAsk(st, id, rid, p, mp, mq) ==
    LogMatch(
        RemoveFilledAsk(
            [ execute_trade(st, id, rid, mp, mq)
                  EXCEPT !.asks[p] = update_total_quantity(@, -mq) ],
            rid, p),
        id, rid, mp, mq)

\* try_match, incoming BUY, with the best ask level at key p
TryMatchAsk(st, id, p) ==
    IF st.orders[id].type = "LIMIT" /\ st.orders[id].price < st.asks[p].price
    THEN NoMatch(st)
    ELSE IF front_order(st.asks[p]) = 0
            \/ ~is_active(st.orders[front_order(st.asks[p])])
    THEN NoMatch(st)
    ELSE [ matched |-> TRUE,
           st |-> TradeWithAsk(st, id, front_order(st.asks[p]), p,
                      match_price(st.orders[id], st.orders[front_order(st.asks[p])]),
                      match_quantity(st.orders[id],
                                     st.orders[front_order(st.asks[p])])) ]

\* try_match, incoming SELL: "Remove resting order if filled"
RemoveFilledBid(st, rid, p) ==
    IF is_filled(st.orders[rid])
    THEN StaleRead(remove_order(st, rid), remove_order(st, rid).bids, p)
    ELSE st

\* an incoming SELL that is passed to execute_trade as the buy order
TradeWithBid_swapped(st, id, rid, p, mp, mq) ==
    LogMatch(
        RemoveFilledBid(
            [ execute_trade(st, id, rid, mp, mq)
                  EXCEPT !.bids[p] = update_total_quantity(@, -mq) ],
            rid, p),
        id, rid, mp, mq)

\* try_match, incoming SELL, from "Execute trade" on
TradeWithBid(st, id, rid, p, mp, mq) ==
    LogMatch(
        RemoveFilledBid(
            [ execute_trade(st, rid, id, mp, mq)
                  EXCEPT !.bids[p] = update_total_quantity(@, -mq) ],
            rid, p),
        id, rid, mp, mq)

\* try_match, incoming SELL, with the best bid level at key p
TryMatchBid(st, id, p) ==
    IF st.orders[id].type = "LIMIT" /\ st.orders[id].price > st.bids[p].price
    THEN NoMatch(st)
    ELSE IF front_order(st.bids[p]) = 0
            \/ ~is_active(st.orders[front_order(st.bids[p])])
    THEN NoMatch(st)
    ELSE [ matched |-> TRUE,
           st |-> TradeWithBid(st, id, front_order(st.bids[p]), p,
                      match_price(st.orders[id], st.orders[front_order(st.bids[p])]),
                      match_quantity(st.orders[id],
                                     st.orders[front_order(st.bids[p])])) ]

\* MatchingEngine::try_match: [matched, st]
try_match(st, id) ==
    IF st.orders[id].side = "BUY"
    THEN IF ~get_best_ask_level(st).has_value THEN NoMatch(st)
         ELSE IF PriceLevel_empty(st.asks[get_best_ask_level(st).value])
         THEN NoMatch(st)
         ELSE TryMatchAsk(st, id, get_best_ask_level(st).value)
    ELSE IF ~get_best_bid_level(st).has_value THEN NoMatch(st)
         ELSE IF PriceLevel_empty(st.bids[get_best_bid_level(st).value])
         THEN NoMatch(st)
         ELSE TryMatchBid(st, id, get_best_bid_level(st).value)

\* the loop `while (order->is_active() && can_match(order))` of
\* match_limit_order; LimitStep is its body, given try_match's result
RECURSIVE limit_loop(_, _)
LimitStep(r, id) == IF ~r.matched THEN r.st ELSE limit_loop(r.st, id)

limit_loop(st, id) ==
    IF is_active(st.orders[id]) /\ can_match(st, id)
    THEN LimitStep(try_match(st, id), id)
    ELSE st

\* "If still has quantity, add to book"
RestRemainder(st, id) ==
    IF is_active(st.orders[id]) /\ remaining_quantity(st.orders[id]) > 0
    THEN add_order(st, id).st
    ELSE st

match_limit_order(st, id) == RestRemainder(limit_loop(st, id), id)

\* the loop of match_market_order; MarketStep is its body
RECURSIVE market_loop(_, _)
MarketStep(r, id) ==
    IF ~r.matched THEN SetStatus(r.st, id, "REJECTED")
    ELSE market_loop(r.st, id)

market_loop(st, id) ==
    IF is_active(st.orders[id]) /\ can_match(st, id)
    THEN MarketStep(try_match(st, id), id)
    ELSE st

\* a market order whose unfilled remainder is not rejected
RejectRemainder_skipped(st, id) == st

\* "Market orders never go into the book"
RejectRemainder(st, id) ==
    IF remaining_quantity(st.orders[id]) > 0
    THEN SetStatus(st, id, "REJECTED")
    ELSE st

match_market_order(st, id) == RejectRemainder(market_loop(st, id), id)

\* the order-update callback receives a copy of the order
NotifyOrderUpdate(st, id) == [ st EXCEPT !.updates = Append(@, st.orders[id]) ]

MatchByType(st, id) ==
    IF st.orders[id].type = "MARKET"
    THEN match_market_order(st, id)
    ELSE match_limit_order(st, id)

\* the order-update callback fired before the order is matched
process_new_order_notify_first(st, id) ==
    MatchByType(
        NotifyOrderUpdate([ st EXCEPT !.stats.orders_processed = @ + 1 ], id), id)

process_new_order(st, id) ==
    NotifyOrderUpdate(
        MatchByType([ st EXCEPT !.stats.orders_processed = @ + 1 ], id), id)

\* a cancel counted whether or not the book found the order
CountCancel_always(r) == [ r.st EXCEPT !.stats.orders_cancelled = @ + 1 ]

CountCancel(r) ==
    IF r.ok THEN [ r.st EXCEPT !.stats.orders_cancelled = @ + 1 ] ELSE r.st

process_cancel_order(st, order_id) == CountCancel(cancel_order(st, order_id))

\* a replace that processes the new order before it cancels the old one
process_replace_order_new_first(st, old_order_id, new_order) ==
    process_cancel_order(process_new_order(st, new_order), old_order_id)

process_replace_order(st, old_order_id, new_order) ==
    process_new_order(process_cancel_order(st, old_order_id), new_order)

Dispatch(st, event) ==
    CASE event.type = "NEW_ORDER" -> process_new_order(st, event.order)
      [] event.type = "CANCEL_ORDER" ->
             process_cancel_order(st, event.cancel_order_id)
      [] event.type = "REPLACE_ORDER" ->
             process_replace_order(st, event.cancel_order_id, event.order)
      [] event.type = "SHUTDOWN" -> st

\* process_event, and the count of the events the worker has dispatched
EventDone(st) == [ st EXCEPT !.log.events = @ + 1 ]

process_event(st, event) == EventDone(Dispatch(st, event))

(***************************************************************************)
(* event_queue.hpp.  A queue value is [head, tail, buffer]; buffer is      *)
(* indexed 0 .. Size-1.  push and pop here are whole calls; their single   *)
(* loads and stores are the steps of the queue-only specification below.   *)
(***************************************************************************)
OrderEvent(type, order, cancel_order_id) ==
    [ type |-> type, order |-> order, cancel_order_id |-> cancel_order_id ]

\* a slot nothing was written to yet
NoEvent == OrderEvent("NONE", 0, 0)

Queue == [ head |-> head, tail |-> tail, buffer |-> buffer ]

\* push without its check for a full queue
QueueFull_unchecked(next_tail, h) == FALSE

\* a queue that reports full one event early
QueueFull_early(next_tail, h) == next_tail = h \/ Mask(next_tail + 1) = h

\* `next_tail == head_.load(acquire)` in push, `current_head == tail_.load(acquire)`
\* in pop
QueueFull(next_tail, h) == next_tail = h

\* pop without its check for an empty queue
QueueEmpty_unchecked(current_head, t) == FALSE

QueueEmpty(current_head, t) == current_head = t

\* push that never finds the queue full
push_unchecked(q, event) ==
    [ ok |-> TRUE,
      q  |-> [ q EXCEPT !.buffer[q.tail] = event, !.tail = Mask(q.tail + 1) ] ]

push(q, event) ==
    IF QueueFull(Mask(q.tail + 1), q.head)
    THEN [ ok |-> FALSE, q |-> q ]
    ELSE [ ok |-> TRUE,
           q  |-> [ q EXCEPT !.buffer[q.tail] = event,
                             !.tail = Mask(q.tail + 1) ] ]

\* a pop that never returns an event
pop_never(q) == [ ok |-> FALSE, q |-> q, event |-> NoEvent ]

pop(q) ==
    IF QueueEmpty(q.head, q.tail)
    THEN [ ok |-> FALSE, q |-> q, event |-> NoEvent ]
    ELSE [ ok |-> TRUE, event |-> q.buffer[q.head],
           q |-> [ q EXCEPT !.head = Mask(q.head + 1) ] ]

\* a queue that always says it is empty
empty_always(q) == TRUE

empty(q) == q.head = q.tail

size(q) == Mask(q.tail - q.head + Size)

SetQueue(q) == head' = q.head /\ tail' = q.tail /\ buffer' = q.buffer

(***************************************************************************)
(* matching_engine.hpp, the submission API: what a call returns and the    *)
(* queue it leaves, [ok, q].  `order` is the Order record of the call.     *)
(***************************************************************************)
\* submit_order without its symbol check
submit_order_unchecked(q, order) == push(q, OrderEvent("NEW_ORDER", order.id, 0))

submit_order(q, order) ==
    IF order.symbol # EngineSymbol
    THEN [ ok |-> FALSE, q |-> q ]
    ELSE push(q, OrderEvent("NEW_ORDER", order.id, 0))

MatchingEngine_cancel_order(q, order_id) ==
    push(q, OrderEvent("CANCEL_ORDER", 0, order_id))

replace_order(q, old_order_id, new_order) ==
    push(q, OrderEvent("REPLACE_ORDER", new_order.id, old_order_id))

(***************************************************************************)
(* The engine state the worker thread owns, as a record, and back.         *)
(***************************************************************************)
EngineState ==
    [ orders |-> orders, bids |-> bids, asks |-> asks,
      sequence_counter |-> sequence_counter,
      trade_id_counter |-> trade_id_counter, stats |-> stats,
      trades |-> trades, updates |-> updates, log |-> log ]

SetEngineState(s) ==
    /\ orders' = s.orders /\ bids' = s.bids /\ asks' = s.asks
    /\ sequence_counter' = s.sequence_counter
    /\ trade_id_counter' = s.trade_id_counter /\ stats' = s.stats
    /\ trades' = s.trades /\ updates' = s.updates /\ log' = s.log

bookVars == << bids, asks, sequence_counter, trade_id_counter, stats,
               trades, updates, log >>
queueVars == << head, tail, buffer >>
threadVars == << running, worker, control >>
stepVars == << prod, cons, pushed, popped, shut >>
countVars == << cancels, stops >>
ClientActive == control = "idle" /\ stops < MaxStops

(***************************************************************************)
(* The state after `MatchingEngine engine("AAPL")`.                        *)
(***************************************************************************)
Init ==
    /\ orders = << >>
    /\ bids = EmptyMap /\ asks = EmptyMap /\ sequence_counter = 0
    /\ head = 0 /\ tail = 0 /\ buffer = [ i \in 0 .. Size - 1 |-> NoEvent ]
    /\ running = FALSE /\ trade_id_counter = 0
    /\ stats = [ orders_processed |-> 0, trades_executed |-> 0,
                 orders_cancelled |-> 0 ]
    /\ worker = "none" /\ control = "idle"
    /\ trades = << >> /\ updates = << >>
    /\ log = [ matches |-> << >>, status_changes |-> << >>, inserted |-> << >>,
               stale_level_reads |-> 0, events |-> 0, at_trade |-> << >> ]
    /\ ret = [ op |-> "none", ok |-> TRUE ]
    /\ cancels = 0 /\ stops = 0
    /\ prod = [ pc |-> "idle", current_tail |-> 0, next_tail |-> 0,
                event |-> NoEvent, head_seen |-> 0 ]
    /\ cons = [ pc |-> "idle", current_head |-> 0, event |-> NoEvent,
                tail_seen |-> 0 ]
    /\ pushed = << >> /\ popped = << >>
    /\ shut = [ pc |-> "idle", current_tail |-> 0, next_tail |-> 0, head_seen |-> 0 ]

(***************************************************************************)
(* The client thread: it creates the orders and calls start, stop,         *)
(* submit_order, cancel_order and replace_order, one call at a time (the   *)
(* queue has one producer).  An Order object enters `orders` when the      *)
(* engine accepts the event that carries it; its id is its index.  The     *)
(* client makes its calls before its last stop().                          *)
(***************************************************************************)
NewOrders(id, symbols) ==
    { Order(id, sym, side, "LIMIT", price, qty) :
        sym \in symbols, side \in {"BUY", "SELL"}, price \in Prices,
        qty \in Quantities }
    \cup
    { Order(id, sym, side, "MARKET", MarketPrice, qty) :
        sym \in symbols, side \in {"BUY", "SELL"}, qty \in Quantities }

NextId == Len(orders) + 1

\* running_, the state of engine_thread_ ("none": not joinable) and the place
\* of the control thread in stop()
Threads == [ running |-> running, worker |-> worker, control |-> control ]

SetThreads(t) ==
    running' = t.running /\ worker' = t.worker /\ control' = t.control

\* start that does not look at running_
start_unconditional(t) ==
    [ t EXCEPT !.running = TRUE,
               !.worker = IF t.worker # "none" THEN "terminated" ELSE "running" ]

\* MatchingEngine::start.  The assignment of a new std::thread to an
\* engine_thread_ that is joinable calls std::terminate.
start(t) ==
    IF t.running THEN t
    ELSE [ t EXCEPT !.running = TRUE,
                    !.worker = IF t.worker # "none" THEN "terminated"
                               ELSE "running" ]

\* MatchingEngine::stop up to `running_.store(false)`
stop(t) ==
    IF ~t.running THEN t
    ELSE [ t EXCEPT !.running = FALSE, !.control = "pushing" ]

Start ==
    /\ ClientActive
    /\ SetThreads(start(Threads))
    /\ UNCHANGED << orders, bookVars, queueVars, ret, countVars, stepVars >>

Stop ==
    /\ ClientActive
    /\ SetThreads(stop(Threads))
    /\ stops' = IF running THEN stops + 1 ELSE stops
    /\ UNCHANGED << orders, bookVars, queueVars, ret, cancels, stepVars >>

\* MatchingEngine::stop: `event_queue_.push(shutdown_event)`, its result unused
StopPush ==
    /\ control = "pushing"
    /\ SetQueue(push(Queue, OrderEvent("SHUTDOWN", 0, 0)).q)
    /\ control' = "joining"
    /\ UNCHANGED << orders, bookVars, running, worker, ret, countVars, stepVars >>

\* engine_thread_.join() returns
Joined ==
    /\ control = "joining"
    /\ worker = "exited"
    /\ control' = "idle"
    /\ worker' = "none"
    /\ UNCHANGED << orders, bookVars, queueVars, running, ret, countVars,
                    stepVars >>

\* MatchingEngine::submit_order
SubmitOrder ==
    /\ ClientActive
    /\ NextId <= MaxOrders
    /\ \E order \in NewOrders(NextId, Symbols) :
         LET r == submit_order(Queue, order) IN
         /\ ret' = [ op |-> "submit", ok |-> r.ok ]
         /\ SetQueue(r.q)
         /\ orders' = IF r.ok THEN Append(orders, order) ELSE orders
    /\ UNCHANGED << bookVars, threadVars, countVars, stepVars >>

\* MatchingEngine::cancel_order
CancelOrder ==
    /\ ClientActive
    /\ cancels < MaxCancels
    /\ \E order_id \in 1 .. NextId :
         LET r == MatchingEngine_cancel_order(Queue, order_id) IN
         /\ ret' = [ op |-> "cancel", ok |-> r.ok ]
         /\ SetQueue(r.q)
         /\ cancels' = IF r.ok THEN cancels + 1 ELSE cancels
    /\ UNCHANGED << orders, bookVars, threadVars, stops, stepVars >>

\* MatchingEngine::replace_order
ReplaceOrder ==
    /\ ClientActive
    /\ NextId <= MaxOrders
    /\ cancels < MaxCancels
    /\ \E old_order_id \in 1 .. NextId, order \in NewOrders(NextId, Symbols) :
         LET r == replace_order(Queue, old_order_id, order) IN
         /\ ret' = [ op |-> "replace", ok |-> r.ok ]
         /\ SetQueue(r.q)
         /\ orders' = IF r.ok THEN Append(orders, order) ELSE orders
         /\ cancels' = IF r.ok THEN cancels + 1 ELSE cancels
    /\ UNCHANGED << bookVars, threadVars, stops, stepVars >>

(***************************************************************************)
(* The worker thread: one iteration of the loop of MatchingEngine::run.    *)
(***************************************************************************)
WorkerExit ==
    /\ worker = "running"
    /\ ~(running \/ ~empty(Queue))
    /\ worker' = "exited"
    /\ UNCHANGED << orders, bookVars, queueVars, running, control, ret, countVars,
                    stepVars >>

WorkerProcess ==
    /\ worker = "running"
    /\ running \/ ~empty(Queue)
    /\ LET r == pop(Queue) IN
       /\ r.ok
       /\ SetQueue(r.q)
       /\ SetEngineState(process_event(EngineState, r.event))
    /\ UNCHANGED << threadVars, ret, countVars, stepVars >>

WorkerYield ==
    /\ worker = "running"
    /\ running \/ ~empty(Queue)
    /\ ~pop(Queue).ok
    /\ UNCHANGED vars

Next ==
    \/ Start
    \/ Stop
    \/ StopPush
    \/ Joined
    \/ SubmitOrder
    \/ CancelOrder
    \/ ReplaceOrder
    \/ WorkerExit
    \/ WorkerProcess
    \/ WorkerYield

Spec == Init /\ [][Next]_vars

(***************************************************************************)
(* The queue alone, one producer thread in push and one consumer thread in *)
(* pop, a step per load, store and slot access.  head_ and tail_ count     *)
(* modulo Size; Len(popped) and Len(pushed) are the numbers of stores made *)
(* to them.  A relaxed load reads the thread's own last store.  An acquire *)
(* load reads the other thread's counter: it may return any store from the *)
(* last one this thread has seen up to the latest one.                     *)
(***************************************************************************)
engineVars == << orders, bids, asks, sequence_counter, running, trade_id_counter,
                 stats, worker, control, trades, updates, log, ret, cancels, stops,
                 shut >>

\* the k-th event the producer offers
NthEvent(k) == OrderEvent("CANCEL_ORDER", 0, k)

\* push: `current_tail = tail_.load(relaxed)`, `next_tail = ...`
ProdLoadTail ==
    /\ prod.pc = "idle"
    /\ Len(pushed) < MaxPush
    /\ prod' = [ prod EXCEPT !.pc = "check", !.current_tail = tail,
                             !.next_tail = Mask(tail + 1),
                             !.event = NthEvent(Len(pushed) + 1) ]
    /\ UNCHANGED << engineVars, queueVars, cons, pushed, popped >>

\* push: `if (next_tail == head_.load(acquire)) return false`
ProdLoadHead ==
    /\ prod.pc = "check"
    /\ \E h \in prod.head_seen .. Len(popped) :
         prod' = [ prod EXCEPT !.head_seen = h,
                               !.pc = IF QueueFull(prod.next_tail, Mask(h))
                                      THEN "idle" ELSE "write" ]
    /\ UNCHANGED << engineVars, queueVars, cons, pushed, popped >>

\* push: `buffer_[current_tail] = event`
ProdWrite ==
    /\ prod.pc = "write"
    /\ buffer' = [ buffer EXCEPT ![prod.current_tail] = prod.event ]
    /\ prod' = [ prod EXCEPT !.pc = "publish" ]
    /\ UNCHANGED << engineVars, head, tail, cons, pushed, popped >>

\* push: `tail_.store(next_tail, release); return true`
ProdPublish ==
    /\ prod.pc = "publish"
    /\ tail' = prod.next_tail
    /\ pushed' = Append(pushed, prod.event)
    /\ prod' = [ prod EXCEPT !.pc = "idle" ]
    /\ UNCHANGED << engineVars, head, buffer, cons, popped >>

\* pop: `current_head = head_.load(relaxed)`
ConsLoadHead ==
    /\ cons.pc = "idle"
    /\ Len(popped) < MaxPush
    /\ cons' = [ cons EXCEPT !.pc = "check", !.current_head = head ]
    /\ UNCHANGED << engineVars, queueVars, prod, pushed, popped >>

\* pop: `if (current_head == tail_.load(acquire)) return false`
ConsLoadTail ==
    /\ cons.pc = "check"
    /\ \E t \in cons.tail_seen .. Len(pushed) :
         cons' = [ cons EXCEPT !.tail_seen = t,
                               !.pc = IF QueueEmpty(cons.current_head, Mask(t))
                                      THEN "idle" ELSE "read" ]
    /\ UNCHANGED << engineVars, queueVars, prod, pushed, popped >>

\* pop: `event = buffer_[current_head]`
ConsRead ==
    /\ cons.pc = "read"
    /\ cons' = [ cons EXCEPT !.pc = "advance", !.event = buffer[cons.current_head] ]
    /\ UNCHANGED << engineVars, queueVars, prod, pushed, popped >>

\* pop: `head_.store((current_head + 1) & (Size - 1), release); return true`
ConsAdvance ==
    /\ cons.pc = "advance"
    /\ head' = Mask(cons.current_head + 1)
    /\ popped' = Append(popped, cons.event)
    /\ cons' = [ cons EXCEPT !.pc = "idle" ]
    /\ UNCHANGED << engineVars, tail, buffer, prod, pushed >>

QueueNext ==
    \/ ProdLoadTail
    \/ ProdLoadHead
    \/ ProdWrite
    \/ ProdPublish
    \/ ConsLoadHead
    \/ ConsLoadTail
    \/ ConsRead
    \/ ConsAdvance

SpecQueue == Init /\ [][QueueNext]_vars

(***************************************************************************)
(* The life cycle: a control thread that starts and stops the engine more  *)
(* than once and submits orders and cancels in between, and the worker.    *)
(* `pushed` holds the events the queue accepted, `popped` the events the   *)
(* worker dispatched.                                                      *)
(***************************************************************************)
LifeActive == control = "idle" /\ stops < MaxCycles

\* the client's calls, with the event if the queue took it
LifePushed(r, event) ==
    /\ SetQueue(r.q)
    /\ pushed' = IF r.ok THEN Append(pushed, event) ELSE pushed

LifeStart ==
    /\ LifeActive
    /\ SetThreads(start(Threads))
    /\ UNCHANGED << orders, bookVars, queueVars, ret, countVars, stepVars >>

LifeStop ==
    /\ LifeActive
    /\ SetThreads(stop(Threads))
    /\ stops' = IF running THEN stops + 1 ELSE stops
    /\ UNCHANGED << orders, bookVars, queueVars, ret, cancels, stepVars >>

LifeStopPush ==
    /\ control = "pushing"
    /\ LifePushed(push(Queue, OrderEvent("SHUTDOWN", 0, 0)),
                  OrderEvent("SHUTDOWN", 0, 0))
    /\ control' = "joining"
    /\ UNCHANGED << orders, bookVars, running, worker, ret, countVars, prod, cons,
                    popped, shut >>

LifeSubmit ==
    /\ LifeActive
    /\ NextId <= MaxLifeOrders
    /\ \E order \in NewOrders(NextId, {EngineSymbol}) :
         /\ LifePushed(submit_order(Queue, order),
                       OrderEvent("NEW_ORDER", order.id, 0))
         /\ ret' = [ op |-> "submit", ok |-> submit_order(Queue, order).ok ]
         /\ orders' = IF submit_order(Queue, order).ok THEN Append(orders, order)
                      ELSE orders
    /\ UNCHANGED << bookVars, threadVars, countVars, prod, cons, popped, shut >>

LifeCancel ==
    /\ LifeActive
    /\ cancels < MaxCancels
    /\ \E order_id \in 1 .. NextId :
         /\ LifePushed(MatchingEngine_cancel_order(Queue, order_id),
                       OrderEvent("CANCEL_ORDER", 0, order_id))
         /\ ret' = [ op |-> "cancel",
                     ok |-> MatchingEngine_cancel_order(Queue, order_id).ok ]
         /\ cancels' = IF MatchingEngine_cancel_order(Queue, order_id).ok
                       THEN cancels + 1 ELSE cancels
    /\ UNCHANGED << orders, bookVars, threadVars, stops, prod, cons, popped,
                    shut >>

LifeWorkerProcess ==
    /\ worker = "running"
    /\ running \/ ~empty(Queue)
    /\ pop(Queue).ok
    /\ SetQueue(pop(Queue).q)
    /\ SetEngineState(process_event(EngineState, pop(Queue).event))
    /\ popped' = Append(popped, pop(Queue).event)
    /\ UNCHANGED << threadVars, ret, countVars, prod, cons, pushed, shut >>

LifeNext ==
    \/ LifeStart
    \/ LifeStop
    \/ LifeStopPush
    \/ Joined
    \/ LifeSubmit
    \/ LifeCancel
    \/ LifeWorkerProcess
    \/ WorkerYield
    \/ WorkerExit

SpecLife == Init /\ [][LifeNext]_vars

(***************************************************************************)
(* The life cycle under a fair scheduler.  The client's events are cancel  *)
(* requests, enough of them to fill the queue: what an event does to the   *)
(* book plays no part in when the worker leaves its loop.  The scheduler   *)
(* lets the worker thread run, and the control thread while it is inside   *)
(* stop(); the client may stop calling at any time.                        *)
(***************************************************************************)
DrainCancel ==
    /\ LifeActive
    /\ cancels < MaxDrainCancels
    /\ \E order_id \in 1 .. NextId :
         /\ LifePushed(MatchingEngine_cancel_order(Queue, order_id),
                       OrderEvent("CANCEL_ORDER", 0, order_id))
         /\ ret' = [ op |-> "cancel",
                     ok |-> MatchingEngine_cancel_order(Queue, order_id).ok ]
         /\ cancels' = IF MatchingEngine_cancel_order(Queue, order_id).ok
                       THEN cancels + 1 ELSE cancels
    /\ UNCHANGED << orders, bookVars, threadVars, stops, prod, cons, popped,
                    shut >>

DrainNext ==
    \/ LifeStart
    \/ LifeStop
    \/ LifeStopPush
    \/ Joined
    \/ DrainCancel
    \/ LifeWorkerProcess
    \/ WorkerYield
    \/ WorkerExit

SpecDrain ==
    /\ Init /\ [][DrainNext]_vars
    /\ WF_vars(LifeWorkerProcess)
    /\ WF_vars(WorkerExit)
    /\ WF_vars(LifeStopPush)
    /\ WF_vars(Joined)

(***************************************************************************)
(* stop() on one thread while a producer thread is inside push.  Nothing   *)
(* in stop() or in the submission API orders the two calls: the control    *)
(* thread's `event_queue_.push(shutdown_event)` and the producer's push    *)
(* run load by load and store by store, and the worker pops.  The loads of *)
(* tail_ return its latest value here.  Two unordered writes of one slot   *)
(* are a data race: the slot then holds any mix of the two events.         *)
(***************************************************************************)
ShutdownEvent == OrderEvent("SHUTDOWN", 0, 0)

\* what a slot can hold after unordered writes of the events a and b
Torn(a, b) ==
    { OrderEvent(type, order, cancel_order_id) :
        type \in {a.type, b.type}, order \in {a.order, b.order},
        cancel_order_id \in {a.cancel_order_id, b.cancel_order_id} }

\* the thread `other` has written slot i and not yet published it
Unpublished(other, i) == other.pc = "publish" /\ other.current_tail = i

\* stop(), push: `current_tail = tail_.load(relaxed)`, `next_tail = ...`
ShutLoadTail ==
    /\ control = "pushing"
    /\ shut.pc = "idle"
    /\ shut' = [ shut EXCEPT !.pc = "check", !.current_tail = tail,
                             !.next_tail = Mask(tail + 1) ]
    /\ UNCHANGED << orders, bookVars, queueVars, threadVars, ret, countVars,
                    prod, cons, pushed, popped >>

\* stop(), push: `if (next_tail == head_.load(acquire)) return false`; stop()
\* does not look at the result and goes on to join()
ShutLoadHead ==
    /\ shut.pc = "check"
    /\ \E h \in shut.head_seen .. Len(popped) :
         /\ shut' = [ shut EXCEPT !.head_seen = h,
                                  !.pc = IF QueueFull(shut.next_tail, Mask(h))
                                         THEN "idle" ELSE "write" ]
         /\ control' = IF QueueFull(shut.next_tail, Mask(h)) THEN "joining"
                       ELSE control
    /\ UNCHANGED << orders, bookVars, queueVars, running, worker, ret, countVars,
                    prod, cons, pushed, popped >>

\* stop(), push: `buffer_[current_tail] = event`
ShutWrite ==
    /\ shut.pc = "write"
    /\ \E event \in IF Unpublished(prod, shut.current_tail)
                     THEN Torn(ShutdownEvent, prod.event) ELSE {ShutdownEvent} :
         buffer' = [ buffer EXCEPT ![shut.current_tail] = event ]
    /\ shut' = [ shut EXCEPT !.pc = "publish" ]
    /\ UNCHANGED << orders, bookVars, head, tail, threadVars, ret, countVars,
                    prod, cons, pushed, popped >>

\* stop(), push: `tail_.store(next_tail, release); return true`
ShutPublish ==
    /\ shut.pc = "publish"
    /\ tail' = shut.next_tail
    /\ pushed' = Append(pushed, ShutdownEvent)
    /\ shut' = [ shut EXCEPT !.pc = "idle" ]
    /\ control' = "joining"
    /\ UNCHANGED << orders, bookVars, head, buffer, running, worker, ret,
                    countVars, prod, cons, popped >>

\* the producer's `buffer_[current_tail] = event`
RaceProdWrite ==
    /\ prod.pc = "write"
    /\ \E event \in IF Unpublished(shut, prod.current_tail)
                     THEN Torn(prod.event, ShutdownEvent) ELSE {prod.event} :
         buffer' = [ buffer EXCEPT ![prod.current_tail] = event ]
    /\ prod' = [ prod EXCEPT !.pc = "publish" ]
    /\ UNCHANGED << engineVars, head, tail, cons, pushed, popped >>

\* the worker's pop: `if (current_head == tail_.load(acquire)) return false`
RaceConsLoadTail ==
    /\ cons.pc = "check"
    /\ cons' = [ cons EXCEPT !.pc = IF QueueEmpty(cons.current_head, tail)
                                    THEN "idle" ELSE "read" ]
    /\ UNCHANGED << engineVars, queueVars, prod, pushed, popped >>

\* run: the worker calls pop while `running_ || !event_queue_.empty()`
RaceWorkerPop ==
    /\ worker = "running"
    /\ cons.pc = "idle" => (running \/ ~empty(Queue))
    /\ \/ ConsLoadHead
       \/ RaceConsLoadTail
       \/ ConsRead
       \/ ConsAdvance

RaceWorkerExit == cons.pc = "idle" /\ WorkerExit

RaceNext ==
    \/ Start
    \/ Stop
    \/ ShutLoadTail
    \/ ShutLoadHead
    \/ ShutWrite
    \/ ShutPublish
    \/ Joined
    \/ ProdLoadTail
    \/ ProdLoadHead
    \/ RaceProdWrite
    \/ ProdPublish
    \/ RaceWorkerPop
    \/ RaceWorkerExit

SpecRace == Init /\ [][RaceNext]_vars

(***************************************************************************)
(* The engine alone: the worker thread's view.  The events arrive in the   *)
(* order the queue delivers them, one process_event per step; an order's   *)
(* event is processed before any event of a later call.  submit_order      *)
(* lets only orders of the engine's symbol through, replace_order any.     *)
(***************************************************************************)
\* the engine state with the client's new Order object in place
WithOrder(order) == [ EngineState EXCEPT !.orders = Append(@, order) ]

idleVars == << queueVars, threadVars, ret, stops, stepVars >>

EngineNewOrder ==
    /\ NextId <= MaxOrders
    /\ \E order \in NewOrders(NextId, {EngineSymbol}) :
         SetEngineState(process_event(WithOrder(order),
                                      OrderEvent("NEW_ORDER", order.id, 0)))
    /\ UNCHANGED << idleVars, cancels >>

EngineCancelOrder ==
    /\ cancels < MaxCancels
    /\ \E order_id \in 1 .. NextId :
         SetEngineState(process_event(EngineState,
                                      OrderEvent("CANCEL_ORDER", 0, order_id)))
    /\ cancels' = cancels + 1
    /\ UNCHANGED idleVars

EngineReplaceOrder ==
    /\ NextId <= MaxOrders
    /\ cancels < MaxCancels
    /\ \E old_order_id \in 1 .. NextId, order \in NewOrders(NextId, Symbols) :
         SetEngineState(process_event(WithOrder(order),
                            OrderEvent("REPLACE_ORDER", order.id, old_order_id)))
    /\ cancels' = cancels + 1
    /\ UNCHANGED idleVars

EngineNext ==
    \/ EngineNewOrder
    \/ EngineCancelOrder
    \/ EngineReplaceOrder

SpecEngine == Init /\ [][EngineNext]_vars

(***************************************************************************)
(* What the claims speak about.                                            *)
(***************************************************************************)
Ids == 1 .. Len(orders)

Levels(side) == { side[p] : p \in DOMAIN side }

\* the ids resting in a map
RestingIn(side) ==
    UNION { { side[p].orders[i] : i \in 1 .. Len(side[p].orders) } : p \in DOMAIN side }

Resting == RestingIn(bids) \cup RestingIn(asks)

\* the sum of the remaining quantities of the orders a level holds
RemainingSum(level) ==
    SeqSum([ i \in 1 .. Len(level.orders) |-> remaining_quantity(orders[level.orders[i]]) ])

Matches == 1 .. Len(log.matches)

\* two orders of one side and one price: they share a level when both rest
SameLevel(a, b) ==
    orders[a].side = orders[b].side /\ orders[a].price = orders[b].price

(***************************************************************************)
(* C1: after every event, if both a best bid and a best ask exist then     *)
(* best_bid < best_ask: the book is never left crossed.                    *)
(***************************************************************************)
C1_NotCrossed ==
    (best_bid(EngineState).has_value /\ best_ask(EngineState).has_value)
        => best_bid(EngineState).value < best_ask(EngineState).value

\* both sides hold orders after a marketable order has traded
C1_Witness ==
    /\ DOMAIN bids # {} /\ DOMAIN asks # {}
    /\ Len(trades) > 0

(***************************************************************************)
(* C2: price-time priority inside one level.  An order that has traded as  *)
(* the resting side leaves every earlier-inserted order of its level       *)
(* FILLED or CANCELLED, and the resting orders of one level trade in the   *)
(* order of their sequence numbers.                                        *)
(***************************************************************************)
C2_PriceTimePriority ==
    /\ \A i \in Matches : \A o \in Ids :
         LET r == log.matches[i].resting IN
         ( /\ SameLevel(o, r)
           /\ orders[o].sequence_number > 0
           /\ orders[o].sequence_number < orders[r].sequence_number )
         => orders[o].status \in {"FILLED", "CANCELLED"}
    /\ \A i, j \in Matches :
         ( i < j /\ SameLevel(log.matches[i].resting, log.matches[j].resting) )
         => orders[log.matches[i].resting].sequence_number
              <= orders[log.matches[j].resting].sequence_number

\* one aggressor has drained two orders of one level, the older one first
C2_Witness ==
    \E i, j \in Matches :
        /\ j = i + 1
        /\ log.matches[i].incoming = log.matches[j].incoming
        /\ log.matches[i].resting # log.matches[j].resting
        /\ SameLevel(log.matches[i].resting, log.matches[j].resting)
        /\ orders[log.matches[i].resting].status = "FILLED"

(***************************************************************************)
(* C3: every trade is made at the resting order's price, which is never    *)
(* worse than a LIMIT aggressor's limit.                                   *)
(***************************************************************************)
C3_TradeAtRestingPrice ==
    /\ Len(trades) = Len(log.matches)
    /\ \A i \in Matches :
         LET m == log.matches[i]
             inc == orders[m.incoming]
         IN  /\ trades[i].price = orders[m.resting].price
             /\ (inc.type = "LIMIT" /\ inc.side = "BUY") => trades[i].price <= inc.price
             /\ (inc.type = "LIMIT" /\ inc.side = "SELL") => trades[i].price >= inc.price

\* a marketable BUY at P has traded at a best ask Q < P
C3_Witness ==
    \E i \in Matches :
        /\ orders[log.matches[i].incoming].type = "LIMIT"
        /\ orders[log.matches[i].incoming].side = "BUY"
        /\ trades[i].price < orders[log.matches[i].incoming].price

(***************************************************************************)
(* C5: after every event, every level present in a map is non-empty and    *)
(* its total_quantity is the sum of the remaining quantities of its orders.*)
(***************************************************************************)
C5_LevelTotals ==
    \A level \in Levels(bids) \cup Levels(asks) :
        /\ level.orders # << >>
        /\ level.total_quantity = RemainingSum(level)

\* a level holds a partially filled order, after a fill that emptied an order
\* and a cancel that removed one
C5_Witness ==
    /\ \E level \in Levels(bids) \cup Levels(asks) :
         \E i \in 1 .. Len(level.orders) :
              orders[level.orders[i]].filled_quantity > 0
    /\ stats.orders_cancelled > 0
    /\ \E o \in Ids : orders[o].status = "FILLED"

(***************************************************************************)
(* C6: after every event, every order a level holds has the level's price, *)
(* lies on the map of its side, is a LIMIT order and is NEW or             *)
(* PARTIALLY_FILLED.                                                       *)
(***************************************************************************)
RestingOk(side, name) ==
    \A p \in DOMAIN side : \A i \in 1 .. Len(side[p].orders) :
        LET o == orders[side[p].orders[i]] IN
        /\ o.price = p /\ side[p].price = p
        /\ o.side = name
        /\ o.type = "LIMIT"
        /\ o.status \in {"NEW", "PARTIALLY_FILLED"}

C6_RestingOrders == RestingOk(bids, "BUY") /\ RestingOk(asks, "SELL")

\* an order rests while another one, once resting, was filled and removed
C6_Witness ==
    /\ Resting # {}
    /\ \E o \in Ids : orders[o].status = "FILLED" /\ orders[o].sequence_number > 0

(***************************************************************************)
(* C7: no order is ever over-filled: 0 <= filled_quantity <= quantity.     *)
(***************************************************************************)
C7_NoOverfill ==
    \A o \in Ids :
        0 <= orders[o].filled_quantity /\ orders[o].filled_quantity <= orders[o].quantity

\* an aggressor larger than the resting order has filled it exactly
C7_Witness ==
    \E i \in Matches :
        /\ trades[i].quantity < orders[log.matches[i].incoming].quantity
        /\ orders[log.matches[i].resting].filled_quantity
             = orders[log.matches[i].resting].quantity

(***************************************************************************)
(* C8: every status change the engine makes follows NEW ->                 *)
(* {PARTIALLY_FILLED, FILLED, CANCELLED, REJECTED} and PARTIALLY_FILLED -> *)
(* {FILLED, CANCELLED}; FILLED, CANCELLED and REJECTED are terminal and a  *)
(* PARTIALLY_FILLED order never becomes REJECTED.                          *)
(***************************************************************************)
StatusDag ==
    { << "NEW", "PARTIALLY_FILLED" >>, << "NEW", "FILLED" >>,
      << "NEW", "CANCELLED" >>, << "NEW", "REJECTED" >>,
      << "PARTIALLY_FILLED", "FILLED" >>, << "PARTIALLY_FILLED", "CANCELLED" >> }

C8_StatusDag ==
    \A i \in 1 .. Len(log.status_changes) :
        << log.status_changes[i].from, log.status_changes[i].to >> \in StatusDag

(***************************************************************************)
(* The event a step of the worker dispatches, seen from the step.          *)
(***************************************************************************)
\* the worker dispatches an event in this step
Dispatching == log'.events = log.events + 1

\* the event it dispatches
Dispatched == buffer[head]

\* the step completes the processing of the order `id` as a new order
Completes(id) ==
    /\ Dispatching
    /\ Dispatched.type \in {"NEW_ORDER", "REPLACE_ORDER"}
    /\ Dispatched.order = id

\* the ids the cancel half of the event takes out of the book first
CancelledFirst ==
    IF Dispatched.type = "REPLACE_ORDER"
    THEN {Dispatched.cancel_order_id} \cap Resting
    ELSE {}

RECURSIVE RemainingOf(_)
RemainingOf(S) ==
    IF S = {} THEN 0
    ELSE LET o == CHOOSE x \in S : TRUE
         IN  remaining_quantity(orders[o]) + RemainingOf(S \ {o})

\* the quantity the side opposing order `id` offers when its matching starts
Opposing(id) ==
    RemainingOf((IF orders[id].side = "BUY" THEN RestingIn(asks) ELSE RestingIn(bids))
                \ CancelledFirst)

OwnSide(id) == IF orders[id].side = "BUY" THEN bids ELSE asks

(***************************************************************************)
(* C9: a MARKET order is never inserted into the book; when its event      *)
(* completes it is FILLED if the opposing side supplied its whole quantity *)
(* and REJECTED otherwise, with no trade when the opposing side was empty; *)
(* it is never left NEW or PARTIALLY_FILLED.                               *)
(***************************************************************************)
C9_MarketDone ==
    /\ \A i \in 1 .. Len(updates) :
         updates[i].type = "MARKET" => updates[i].status \in {"FILLED", "REJECTED"}
    /\ \A o \in Ids :
         orders[o].type = "MARKET"
           => /\ o \notin Resting
              /\ \A i \in 1 .. Len(log.inserted) : log.inserted[i] # o

C9_MarketOrders ==
    [][ /\ C9_MarketDone'
        /\ \A id \in Ids :
             (Completes(id) /\ orders[id].type = "MARKET")
             => /\ orders'[id].status =
                     IF Opposing(id) >= orders[id].quantity THEN "FILLED"
                     ELSE "REJECTED"
                /\ orders'[id].filled_quantity =
                     Min2(Opposing(id), orders[id].quantity)
                /\ Opposing(id) = 0 => trades' = trades
      ]_vars

\* one market order was filled, another was rejected without a trade
C9_Witness ==
    /\ \E i \in 1 .. Len(updates) :
         updates[i].type = "MARKET" /\ updates[i].status = "FILLED"
    /\ \E i \in 1 .. Len(updates) :
         /\ updates[i].type = "MARKET" /\ updates[i].status = "REJECTED"
         /\ updates[i].filled_quantity = 0

(***************************************************************************)
(* C10: when the processing of a LIMIT order ends with the order active    *)
(* and a remaining quantity > 0, the order is at the tail of the level at  *)
(* its own price on its own side, and the level's total has grown by the   *)
(* order's remaining quantity.                                             *)
(***************************************************************************)
\* the total of the level at the order's price when the order is inserted
OwnLevelBefore(id) ==
    (IF orders[id].price \in DOMAIN OwnSide(id)
     THEN OwnSide(id)[orders[id].price].total_quantity ELSE 0)
    - RemainingOf({ c \in CancelledFirst : SameLevel(c, id) })

RestsAtOwnPrice(id) ==
    /\ orders[id].price \in DOMAIN OwnSide(id)'
    /\ LET level == OwnSide(id)'[orders[id].price] IN
       /\ level.orders # << >>
       /\ level.orders[Len(level.orders)] = id
       /\ level.total_quantity = OwnLevelBefore(id) + remaining_quantity(orders'[id])
    /\ id \notin (IF orders[id].side = "BUY" THEN RestingIn(asks) ELSE RestingIn(bids))'

C10_LimitRests ==
    [][ \A id \in Ids :
          ( /\ Completes(id)
            /\ orders[id].type = "LIMIT"
            /\ is_active(orders'[id])
            /\ remaining_quantity(orders'[id]) > 0 )
          => RestsAtOwnPrice(id)
      ]_vars

(***************************************************************************)
(* C4: with one producer in push and one consumer in pop, under every      *)
(* interleaving of their loads, stores and slot accesses, the events the   *)
(* successful pops returned are a prefix of the events the successful      *)
(* pushes accepted: none is lost, duplicated or reordered.                 *)
(***************************************************************************)
C4_FifoPrefix ==
    /\ Len(popped) <= Len(pushed)
    /\ \A i \in 1 .. Len(popped) : popped[i] = pushed[i]

\* the ring has wrapped: the producer has written a slot for the second time
\* while the consumer holds an event it has read and not yet released
C4_Witness ==
    /\ Len(pushed) >= Size
    /\ Len(popped) >= 1
    /\ cons.pc = "advance"
    /\ prod.pc = "publish"

(***************************************************************************)
(* C11: the processing of a new order fires the order-update callback      *)
(* exactly once, and the order it reports is the order as the event leaves *)
(* it: its final status and filled_quantity, after every trade of the      *)
(* event, and its sequence number if it was inserted into the book.        *)
(***************************************************************************)
C11_UpdateOnce ==
    [][ /\ Len(updates') = stats'.orders_processed
        /\ \A id \in Ids :
             Completes(id)
             => /\ Len(updates') = Len(updates) + 1
                /\ SubSeq(updates', 1, Len(updates)) = updates
                /\ updates'[Len(updates')] = orders'[id]
      ]_vars

\* one update reports an order that traded and then rested, another one a
\* market order rejected without a trade
C11_Witness ==
    /\ \E i \in 1 .. Len(updates) :
         /\ updates[i].status = "PARTIALLY_FILLED"
         /\ updates[i].sequence_number > 0
    /\ \E i \in 1 .. Len(updates) :
         updates[i].type = "MARKET" /\ updates[i].status = "REJECTED"

(***************************************************************************)
(* C12: submit_order with an order of a foreign symbol returns false and   *)
(* leaves the queue as it was, so no NEW_ORDER event ever carries such an  *)
(* order; OrderBook::add_order of such an order returns false and leaves   *)
(* the maps, the sequence counter and everything else as they were.        *)
(***************************************************************************)
C12_SymbolMismatch ==
    /\ \A order \in NewOrders(NextId, Symbols \ {EngineSymbol}) :
         submit_order(Queue, order) = [ ok |-> FALSE, q |-> Queue ]
    /\ \A i \in 0 .. Size - 1 :
         buffer[i].type = "NEW_ORDER"
           => orders[buffer[i].order].symbol = EngineSymbol
    /\ \A id \in Ids :
         orders[id].symbol # EngineSymbol
           => add_order(EngineState, id) = [ ok |-> FALSE, st |-> EngineState ]

\* the book has refused an order of a foreign symbol, and submit_order has
\* returned false while the queue never was full
C12_Witness ==
    /\ \E i \in 1 .. Len(updates) :
         /\ updates[i].symbol # EngineSymbol
         /\ updates[i].status = "NEW"
         /\ updates[i].sequence_number = 0
    /\ ret = [ op |-> "submit", ok |-> FALSE ]
    /\ Len(orders) + cancels + stops < Size - 1

(***************************************************************************)
(* C13: replace_order with a new order of a foreign symbol returns false   *)
(* and enqueues no event, so no REPLACE_ORDER event ever carries such an   *)
(* order.                                                                  *)
(***************************************************************************)
C13_ReplaceChecksSymbol ==
    \A i \in 0 .. Size - 1 :
        buffer[i].type = "REPLACE_ORDER"
          => orders[buffer[i].order].symbol = EngineSymbol

(***************************************************************************)
(* C14: when the queue is full, submit_order, cancel_order and             *)
(* replace_order return false and leave head, tail and every slot as they  *)
(* were; the event of a refused call never is in the queue: every order an *)
(* event in the buffer names was accepted.                                 *)
(***************************************************************************)
C14_FullQueue ==
    /\ size(Queue) = Size - 1
         => /\ \A order \in NewOrders(NextId, Symbols) :
                 /\ submit_order(Queue, order) = [ ok |-> FALSE, q |-> Queue ]
                 /\ \A old \in 1 .. NextId :
                      replace_order(Queue, old, order) = [ ok |-> FALSE, q |-> Queue ]
            /\ \A order_id \in 1 .. NextId :
                 MatchingEngine_cancel_order(Queue, order_id)
                     = [ ok |-> FALSE, q |-> Queue ]
    /\ \A i \in 0 .. Size - 1 :
         buffer[i].type \in {"NEW_ORDER", "REPLACE_ORDER"} => buffer[i].order \in Ids

\* the queue is full of order events, and a cancel_order was refused: only a
\* full queue refuses it
C14_Witness ==
    /\ size(Queue) = Size - 1
    /\ ret = [ op |-> "cancel", ok |-> FALSE ]
    /\ cancels = 0
    /\ Len(orders) = Size - 1

(***************************************************************************)
(* C15: a cancel of an id that does not rest in the book (never submitted, *)
(* FILLED, CANCELLED, REJECTED, a market order) changes nothing: the book  *)
(* returns false, the maps, every order and orders_cancelled are as they   *)
(* were.                                                                   *)
(***************************************************************************)
C15_CancelNotResting ==
    \A order_id \in (0 .. MaxOrders + 1) \ Resting :
        /\ cancel_order(EngineState, order_id) = [ ok |-> FALSE, st |-> EngineState ]
        /\ process_cancel_order(EngineState, order_id) = EngineState

\* the worker has processed the CANCEL_ORDER event of an order that was
\* filled, and has counted no cancel
C15_Witness ==
    /\ empty(Queue)
    /\ stats.orders_cancelled = 0
    /\ \E i \in 0 .. Size - 1 :
         /\ buffer[i].type = "CANCEL_ORDER"
         /\ buffer[i].cancel_order_id \in Ids
         /\ orders[buffer[i].cancel_order_id].status = "FILLED"

(***************************************************************************)
(* What a cancel of a resting order leaves of a map.                       *)
(***************************************************************************)
\* the level without the order id, its total less the order's remainder
LevelWithout(level, id) ==
    [ level EXCEPT !.orders = SelectSeq(@, LAMBDA x : x # id),
                   !.total_quantity = @ - remaining_quantity(orders[id]) ]

\* the map `side` without the order id at price p: the level is erased if the
\* order was alone in it
SideWithout(side, p, id) ==
    IF p \notin DOMAIN side \/ id \notin RestingIn(side) THEN side
    ELSE IF Len(side[p].orders) = 1 THEN MapErase(side, p)
    ELSE MapPut(side, p, LevelWithout(side[p], id))

\* s is the engine state with the resting order id cancelled and counted
CancelEffect(s, id) ==
    /\ s.orders = [ orders EXCEPT ![id].status = "CANCELLED" ]
    /\ s.bids = SideWithout(bids, orders[id].price, id)
    /\ s.asks = SideWithout(asks, orders[id].price, id)
    /\ s.stats = [ stats EXCEPT !.orders_cancelled = @ + 1 ]
    /\ s.sequence_counter = sequence_counter
    /\ s.trade_id_counter = trade_id_counter
    /\ s.trades = trades /\ s.updates = updates
    /\ ~cancel_order(s, id).ok
    /\ process_cancel_order(s, id) = s

(***************************************************************************)
(* C16: a cancel of a resting order sets its status to CANCELLED and       *)
(* leaves its filled_quantity, removes that order alone from its level,    *)
(* lowers the level's total by the order's remaining quantity, erases the  *)
(* level if it is empty then, adds one to orders_cancelled and touches no  *)
(* other order; a second cancel of the id returns false.                   *)
(***************************************************************************)
C16_CancelResting ==
    \A id \in Resting :
        /\ cancel_order(EngineState, id).ok
        /\ CancelEffect(process_cancel_order(EngineState, id), id)

\* the worker has cancelled a partially filled order whose level holds
\* another order
C16_Witness ==
    /\ stats.orders_cancelled = 1
    /\ \E c \in Ids, o \in Resting :
         /\ orders[c].status = "CANCELLED"
         /\ orders[c].filled_quantity > 0
         /\ SameLevel(o, c)
         /\ orders[o].sequence_number > orders[c].sequence_number

(***************************************************************************)
(* An order the engine has not seen yet, processed from the present state. *)
(***************************************************************************)
\* a LIMIT order that does not cross the opposing best price
NonCrossing(order) ==
    /\ order.type = "LIMIT"
    /\ order.side = "BUY" => \A p \in DOMAIN asks : order.price < p
    /\ order.side = "SELL" => \A p \in DOMAIN bids : order.price > p

\* NEW_ORDER for the order, then CANCEL_ORDER for its id
SubmitThenCancel(order) ==
    process_cancel_order(process_new_order(WithOrder(order), order.id), order.id)

\* s is the present state but for one order processed, inserted and cancelled
RoundTrip(s, id) ==
    /\ s.bids = bids /\ s.asks = asks
    /\ s.stats = [ stats EXCEPT !.orders_processed = @ + 1,
                                !.orders_cancelled = @ + 1 ]
    /\ s.trades = trades /\ s.trade_id_counter = trade_id_counter
    /\ s.sequence_counter = sequence_counter + 1
    /\ SubSeq(s.orders, 1, Len(orders)) = orders
    /\ s.orders[id].status = "CANCELLED" /\ s.orders[id].filled_quantity = 0

(***************************************************************************)
(* C17: from every reachable state, a NEW_ORDER for a LIMIT order that     *)
(* does not cross the opposing best price followed by a CANCEL_ORDER for   *)
(* its id leaves both maps as they were, with orders_processed and         *)
(* orders_cancelled one higher each and no trade.                          *)
(***************************************************************************)
C17_SubmitCancelRoundTrip ==
    \A order \in NewOrders(NextId, {EngineSymbol}) :
        NonCrossing(order) => RoundTrip(SubmitThenCancel(order), order.id)

\* the worker has inserted an order beside resting ones without a trade and
\* then cancelled it
C17_Witness ==
    /\ DOMAIN bids # {} /\ DOMAIN asks # {}
    /\ stats.orders_cancelled = 1
    /\ trades = << >>
    /\ \E c \in Ids :
         /\ orders[c].status = "CANCELLED"
         /\ orders[c].sequence_number = sequence_counter

(***************************************************************************)
(* One call of try_match, seen from outside.                               *)
(***************************************************************************)
OpposingSide(st, id) == IF st.orders[id].side = "BUY" THEN st.asks ELSE st.bids

\* the key of the best opposing level
BestOpposing(st, id) ==
    IF st.orders[id].side = "BUY" THEN MinOf(DOMAIN st.asks) ELSE MaxOf(DOMAIN st.bids)

\* the trade of the aggressor id with the resting order rid for quantity q
TradeOf(st, id, rid, q) ==
    IF st.orders[id].side = "BUY"
    THEN Trade(st.trade_id_counter + 1, id, rid, st.orders[rid].price, q)
    ELSE Trade(st.trade_id_counter + 1, rid, id, st.orders[rid].price, q)

\* try_match took st to s2: the aggressor id had a remaining, the resting
\* order rid at the front of the level at p had r remaining
FillEffect(st, s2, id, rid, p, a, r) ==
    /\ a <= r => /\ s2.trades = Append(st.trades, TradeOf(st, id, rid, a))
                 /\ s2.orders[id].status = "FILLED"
                 /\ remaining_quantity(s2.orders[rid]) = r - a
    /\ a < r => /\ s2.orders[rid].status = "PARTIALLY_FILLED"
                /\ p \in DOMAIN OpposingSide(s2, id)
                /\ front_order(OpposingSide(s2, id)[p]) = rid
                /\ OpposingSide(s2, id)[p].total_quantity
                     = OpposingSide(st, id)[p].total_quantity - a
    /\ a = r => /\ s2.orders[rid].status = "FILLED"
                /\ \A q \in DOMAIN OpposingSide(s2, id) :
                     find_order(OpposingSide(s2, id)[q], rid) = 0

FillEffectAt(st, id, p) ==
    FillEffect(st, try_match(st, id).st, id, front_order(OpposingSide(st, id)[p]), p,
               remaining_quantity(st.orders[id]),
               remaining_quantity(st.orders[front_order(OpposingSide(st, id)[p])]))

\* the property of the call of try_match the matching loop makes in st
MatchEffect(st, id) ==
    (is_active(st.orders[id]) /\ can_match(st, id))
        => try_match(st, id).matched /\ FillEffectAt(st, id, BestOpposing(st, id))

(***************************************************************************)
(* C18: when an aggressor with a remaining matches a resting order with r  *)
(* remaining and a < r, one trade of quantity a is made with that order,   *)
(* which stays at the front of its level with r - a remaining and status   *)
(* PARTIALLY_FILLED, the level's total drops by a, and the aggressor is    *)
(* FILLED; when a = r both are FILLED and the resting order is removed.    *)
(* Checked for the first and the second match of every new order.          *)
(***************************************************************************)
C18_PartialFill ==
    \A order \in NewOrders(NextId, {EngineSymbol}) :
        /\ MatchEffect(WithOrder(order), order.id)
        /\ MatchEffect(try_match(WithOrder(order), order.id).st, order.id)

\* one aggressor was filled by a part of a resting order, which stayed in the
\* book; a later aggressor was filled by exactly the rest of it
C18_Witness ==
    \E i, j \in Matches :
        /\ i < j
        /\ log.matches[i].resting = log.matches[j].resting
        /\ log.matches[i].incoming # log.matches[j].incoming
        /\ trades[i].quantity = orders[log.matches[i].incoming].quantity
        /\ trades[j].quantity = orders[log.matches[j].incoming].quantity
        /\ trades[i].quantity + trades[j].quantity
             = orders[log.matches[i].resting].quantity
        /\ log.matches[i].resting \notin Resting

(***************************************************************************)
(* C19: quantity conservation.  After every event the filled quantities of *)
(* all orders sum to twice the quantities of all trades; every trade has   *)
(* one BUY and one SELL order, and an order's filled quantity is the sum   *)
(* of the quantities of its trades.                                        *)
(***************************************************************************)
\* the quantities of the trades that name order id
TradedBy(id) ==
    SeqSum([ i \in 1 .. Len(trades) |->
               IF id \in {trades[i].buy_order_id, trades[i].sell_order_id}
               THEN trades[i].quantity ELSE 0 ])

C19_Conservation ==
    /\ SeqSum([ o \in Ids |-> orders[o].filled_quantity ])
         = 2 * SeqSum([ i \in 1 .. Len(trades) |-> trades[i].quantity ])
    /\ \A i \in 1 .. Len(trades) :
         /\ orders[trades[i].buy_order_id].side = "BUY"
         /\ orders[trades[i].sell_order_id].side = "SELL"
         /\ trades[i].quantity > 0
    /\ \A o \in Ids : orders[o].filled_quantity = TradedBy(o)

\* one order has traded twice, one of its trades left an order partially
\* filled
C19_Witness ==
    /\ Len(trades) >= 2
    /\ \E o \in Ids : orders[o].status = "PARTIALLY_FILLED"
    /\ \E o \in Ids : orders[o].filled_quantity > trades[1].quantity

(***************************************************************************)
(* C20: the sequence numbers the book assigns on insertion are strictly    *)
(* increasing in insertion order over both sides: the n-th insertion gets  *)
(* n, an add refused for its symbol takes no number, and in every level    *)
(* the orders stand in the order of their sequence numbers.                *)
(***************************************************************************)
LevelSequenced(level) ==
    \A i, j \in 1 .. Len(level.orders) :
        i < j => orders[level.orders[i]].sequence_number
                   < orders[level.orders[j]].sequence_number

C20_SequenceNumbers ==
    /\ sequence_counter = Len(log.inserted)
    /\ \A n \in 1 .. Len(log.inserted) : orders[log.inserted[n]].sequence_number = n
    /\ \A o \in Ids :
         orders[o].sequence_number = 0
           <=> \A n \in 1 .. Len(log.inserted) : log.inserted[n] # o
    /\ \A o \in Ids : orders[o].symbol # EngineSymbol => orders[o].sequence_number = 0
    /\ \A level \in Levels(bids) \cup Levels(asks) : LevelSequenced(level)

\* the book refused an order of a foreign symbol between two insertions into
\* one level
C20_Witness ==
    /\ Len(updates) = 3
    /\ updates[1].sequence_number = 1
    /\ updates[2].symbol # EngineSymbol
    /\ updates[3].sequence_number = 2
    /\ \E level \in Levels(bids) \cup Levels(asks) : Len(level.orders) = 2

(***************************************************************************)
(* The matches of one step of the worker.                                  *)
(***************************************************************************)
\* the indices, in the log after the step, of the matches the step makes
NewMatches == (Len(log.matches) + 1) .. Len(log'.matches)

\* the resting order o has priority over the resting order r of its side:
\* a better price, or the same price and an earlier insertion
HasPriority(o, r) ==
    /\ o # r
    /\ orders[o].side = orders[r].side
    /\ \/ orders[o].side = "SELL" /\ orders[o].price < orders[r].price
       \/ orders[o].side = "BUY" /\ orders[o].price > orders[r].price
       \/ /\ orders[o].price = orders[r].price
          /\ orders[o].sequence_number < orders[r].sequence_number

\* the order o was traded for the last time before the match k of the step,
\* and filled
FilledBefore(o, k) ==
    /\ orders'[o].status = "FILLED"
    /\ \E j \in NewMatches : j < k /\ log'.matches[j].resting = o
    /\ \A j \in NewMatches : log'.matches[j].resting = o => j < k

(***************************************************************************)
(* C21: the trades of one event come in price priority first and time      *)
(* priority second: the prices an incoming BUY pays never fall from one    *)
(* trade to the next, those an incoming SELL gets never rise, and when a   *)
(* resting order is traded, every order that rested with priority over it  *)
(* when the event began has been filled by earlier trades of the event     *)
(* (or was cancelled by the event before the matching began).              *)
(***************************************************************************)
C21_PriceThenTime ==
    [][ \A k \in NewMatches :
          /\ \A j \in NewMatches :
               j < k =>
                 /\ log'.matches[j].incoming = log'.matches[k].incoming
                 /\ orders'[log'.matches[k].incoming].side = "BUY"
                      => log'.matches[j].price <= log'.matches[k].price
                 /\ orders'[log'.matches[k].incoming].side = "SELL"
                      => log'.matches[j].price >= log'.matches[k].price
          /\ log'.matches[k].resting \in Resting
          /\ \A o \in Resting :
               ( /\ HasPriority(o, log'.matches[k].resting)
                 /\ orders'[o].status # "CANCELLED" )
               => FilledBefore(o, k)
      ]_vars

\* one event has traded at two prices
C21_Witness ==
    \E i, j \in Matches :
        /\ i < j
        /\ log.matches[i].event = log.matches[j].event
        /\ log.matches[i].price # log.matches[j].price

(***************************************************************************)
(* C22: with one control thread calling start() and stop() in any order,   *)
(* there is never a second worker: start() on a running engine changes     *)
(* nothing, start() never assigns to an engine_thread_ that still holds a  *)
(* thread, stop() on an engine that is not running changes nothing, and    *)
(* when stop() has returned the worker has exited and was joined.          *)
(***************************************************************************)
C22_OneWorker ==
    /\ worker # "terminated"
    /\ running => (worker = "running" /\ start(Threads) = Threads)
    /\ (~running /\ control = "idle")
         => (worker = "none" /\ stop(Threads) = Threads)
    /\ control # "idle" => (~running /\ worker \in {"running", "exited"})

\* the engine was started again after a stop(), and the second stop() has
\* returned too
C22_Witness ==
    /\ stops >= 2
    /\ control = "idle"
    /\ ~running
    /\ worker = "none"

(***************************************************************************)
(* C23: when a stop() that found the engine running returns, the worker    *)
(* has dispatched every event the queue accepted before the call, in the   *)
(* order of the pushes; only SHUTDOWN sentinels can be left in the queue.  *)
(* The worker dispatches in FIFO order at all times, and the dispatch of a *)
(* SHUTDOWN sentinel changes no book, order or counter state.              *)
(***************************************************************************)
\* the dispatched events are the first accepted ones, in their order
FifoDispatch ==
    /\ Len(popped) <= Len(pushed)
    /\ \A i \in 1 .. Len(popped) : popped[i] = pushed[i]

\* nothing but SHUTDOWN sentinels waits in the queue
Drained ==
    \A i \in (Len(popped) + 1) .. Len(pushed) : pushed[i].type = "SHUTDOWN"

C23_DrainOnShutdown ==
    [][ /\ FifoDispatch'
        /\ (control = "joining" /\ control' = "idle") => Drained'
        /\ ( /\ Len(popped') = Len(popped) + 1
             /\ popped'[Len(popped')].type = "SHUTDOWN" )
           => UNCHANGED << orders, bids, asks, sequence_counter, trade_id_counter,
                           stats, trades, updates >>
      ]_vars

\* stop() has returned after the worker dispatched two orders that traded and
\* the sentinel, with orders resting
C23_Witness ==
    /\ control = "idle" /\ ~running /\ stops >= 1
    /\ Len(popped) = Len(pushed)
    /\ popped[Len(popped)].type = "SHUTDOWN"
    /\ Len(trades) > 0
    /\ Resting # {}

(***************************************************************************)
(* C24: one REPLACE_ORDER(old_id, new_order) event leaves exactly what a   *)
(* CANCEL_ORDER(old_id) event followed at once by a NEW_ORDER(new_order)   *)
(* event leaves: book, orders, trades, updates and counters.               *)
(* orders_processed grows by 1, orders_cancelled by 1 iff old_id rested,   *)
(* and the new order is processed whether or not old_id is known.  Checked *)
(* in every state in which the client can still create an order.           *)
(***************************************************************************)
ReplaceEvent(order, old) == OrderEvent("REPLACE_ORDER", order.id, old)

CancelThenNew(order, old) ==
    Dispatch(Dispatch(WithOrder(order), OrderEvent("CANCEL_ORDER", 0, old)),
             OrderEvent("NEW_ORDER", order.id, 0))

\* s is the present state after one more order was processed and old, if it
\* rested, cancelled, and it is what the two events leave
ReplaceEffect(s, order, id, old) ==
    /\ s = CancelThenNew(order, old)
    /\ s.stats.orders_processed = stats.orders_processed + 1
    /\ s.stats.orders_cancelled
         = stats.orders_cancelled + (IF old \in Resting THEN 1 ELSE 0)
    /\ old \in Resting => s.orders[old].status = "CANCELLED"
    /\ s.updates = Append(updates, s.orders[id])

C24_ReplaceIsCancelThenNew ==
    NextId <= MaxOrders =>
      \A order \in NewOrders(NextId, Symbols) : \A old \in 0 .. NextId :
        ReplaceEffect(Dispatch(WithOrder(order), ReplaceEvent(order, old)),
                      order, order.id, old)

\* the worker has processed a REPLACE_ORDER event that cancelled a resting
\* order: only replace_order lets an order of a foreign symbol through
C24_Witness ==
    /\ stats.orders_cancelled = 1
    /\ \E i \in 1 .. Len(updates) : updates[i].symbol # EngineSymbol
    /\ \E o \in Ids : orders[o].status = "CANCELLED"

(***************************************************************************)
(* C25: trade ids are 1, 2, 3, ... in the order the trades are emitted,    *)
(* every trade has a quantity > 0, and trades_executed is the number of    *)
(* trades emitted, which is the last trade id.                             *)
(***************************************************************************)
C25_TradeIds ==
    /\ \A i \in 1 .. Len(trades) : trades[i].trade_id = i /\ trades[i].quantity > 0
    /\ stats.trades_executed = Len(trades)
    /\ trade_id_counter = Len(trades)

\* two events have emitted a trade each
C25_Witness ==
    /\ Len(trades) = 2
    /\ log.matches[1].event # log.matches[2].event

(***************************************************************************)
(* C26: in every trade buy_order_id names the BUY order and sell_order_id  *)
(* the SELL order, whichever of them was the incoming one.                 *)
(***************************************************************************)
C26_TradeSides ==
    \A i \in 1 .. Len(trades) :
        /\ orders[trades[i].buy_order_id].side = "BUY"
        /\ orders[trades[i].sell_order_id].side = "SELL"
        /\ {trades[i].buy_order_id, trades[i].sell_order_id}
             = {log.matches[i].incoming, log.matches[i].resting}

\* one trade had the buyer as the incoming order, another one the seller
C26_Witness ==
    /\ \E i \in Matches : trades[i].buy_order_id = log.matches[i].incoming
    /\ \E i \in Matches : trades[i].sell_order_id = log.matches[i].incoming

(***************************************************************************)
(* C27: get_bid_depth(k) returns min(k, number of bid levels) records in   *)
(* strictly decreasing price order, the first one the best bid;            *)
(* get_ask_depth(k) returns min(k, number of ask levels) records in        *)
(* strictly increasing price order, the first one the best ask; a record   *)
(* carries its level's total_quantity and number of orders; best_bid and   *)
(* best_ask are none exactly when their side has no level.                 *)
(***************************************************************************)
\* the values of max_levels the depth functions are called with
DepthArgs == 0 .. Cardinality(Prices) + 1

\* every record of the depth d of the map `side` reports its level
ReportsLevels(d, side) ==
    \A i \in 1 .. Len(d) :
        /\ d[i].price \in DOMAIN side
        /\ d[i].quantity = side[d[i].price].total_quantity
        /\ d[i].order_count = Len(side[d[i].price].orders)

BidDepthOk(d, k) ==
    /\ Len(d) = Min2(k, Cardinality(DOMAIN bids))
    /\ \A i, j \in 1 .. Len(d) : i < j => d[i].price > d[j].price
    /\ Len(d) > 0 => /\ d[1].price = best_bid(EngineState).value
                     /\ \A p \in DOMAIN bids : p <= d[1].price
    /\ ReportsLevels(d, bids)

AskDepthOk(d, k) ==
    /\ Len(d) = Min2(k, Cardinality(DOMAIN asks))
    /\ \A i, j \in 1 .. Len(d) : i < j => d[i].price < d[j].price
    /\ Len(d) > 0 => /\ d[1].price = best_ask(EngineState).value
                     /\ \A p \in DOMAIN asks : p >= d[1].price
    /\ ReportsLevels(d, asks)

C27_Depth ==
    /\ \A k \in DepthArgs :
         /\ BidDepthOk(get_bid_depth(EngineState, k), k)
         /\ AskDepthOk(get_ask_depth(EngineState, k), k)
    /\ best_bid(EngineState).has_value <=> DOMAIN bids # {}
    /\ best_ask(EngineState).has_value <=> DOMAIN asks # {}

\* the bid side has two levels, and one of its orders is partially filled
C27_Witness ==
    /\ Cardinality(DOMAIN bids) = 2
    /\ \E p \in DOMAIN bids : Len(bids[p].orders) = 1
    /\ \E o \in RestingIn(bids) : orders[o].filled_quantity > 0
    /\ DOMAIN asks = {}

(***************************************************************************)
(* C28: the trade callback fires after the level's total_quantity was      *)
(* lowered by the match quantity and after a filled resting order was      *)
(* removed: in the book as it is during every trade callback, every        *)
(* level's total is the sum of the remaining quantities of its orders and  *)
(* no level holds a FILLED order.                                          *)
(***************************************************************************)
\* the level invariants in the view `side` of a map
LevelsOkAt(side) ==
    \A p \in DOMAIN side :
        /\ side[p].total_quantity
             = SeqSum([ i \in 1 .. Len(side[p].orders) |->
                          remaining_quantity(side[p].orders[i]) ])
        /\ \A i \in 1 .. Len(side[p].orders) :
             side[p].orders[i].status # "FILLED"

C28_BookAtTradeCallback ==
    \A i \in 1 .. Len(log.at_trade) :
        LevelsOkAt(log.at_trade[i].bids) /\ LevelsOkAt(log.at_trade[i].asks)

(***************************************************************************)
(* C29: push never writes a slot that pop is reading or has not read yet,  *)
(* and pop never reads a slot whose write is not complete: the consumer    *)
(* copies a slot only after it has observed the tail store that published  *)
(* it, the producer writes a slot only after it has observed the head      *)
(* store that released it.                                                 *)
(***************************************************************************)
\* the producer is between its check and its tail store: it owns the slot
\* current_tail
Writing == prod.pc \in {"write", "publish"}

\* the consumer is between its check and its head store: it owns the slot
\* current_head
Reading == cons.pc \in {"read", "advance"}

C29_SlotOwnership ==
    /\ Writing =>
         /\ prod.current_tail = Mask(Len(pushed))
         \* the head store that released the slot was observed
         /\ Len(pushed) - prod.head_seen < Size - 1
         /\ prod.head_seen <= Len(popped)
    /\ Reading =>
         /\ cons.current_head = Mask(Len(popped))
         \* the tail store that published the slot was observed
         /\ cons.tail_seen > Len(popped)
         /\ cons.tail_seen <= Len(pushed)
    /\ (Writing /\ Reading) => prod.current_tail # cons.current_head
    /\ cons.pc = "advance" => cons.event = pushed[Len(popped) + 1]

\* the producer writes a slot it has used before while the consumer reads
\* another one
C29_Witness ==
    /\ prod.pc = "write"
    /\ cons.pc = "read"
    /\ Len(pushed) >= Size

(***************************************************************************)
(* C30: a queue of capacity N = Size holds at most N-1 events; a push that *)
(* runs alone returns false exactly when N-1 events are queued; head and   *)
(* tail stay in 0..N-1; when neither thread is inside a call, size() is    *)
(* the number of successful pushes less the number of successful pops, and *)
(* empty() holds iff that number is 0.                                     *)
(***************************************************************************)
Queued == Len(pushed) - Len(popped)

C31_ForeignSymbolInert ==
    /\ \A i \in 1 .. Len(trades) :
         /\ orders[trades[i].buy_order_id].symbol = EngineSymbol
         /\ orders[trades[i].sell_order_id].symbol = EngineSymbol
    /\ \A i \in Matches :
         orders[log.matches[i].incoming].symbol = EngineSymbol
    /\ \A i \in 1 .. Len(updates) : updates[i].symbol = EngineSymbol

(***************************************************************************)
(* C32: stop() running concurrently with a producer's call loses and       *)
(* overwrites no accepted event: the SHUTDOWN push inside stop() and the   *)
(* producer's push never hold the same slot (and so never publish the same *)
(* tail value), and when no call is in flight the events popped, followed  *)
(* by the events in the queue, are the events of the calls that returned   *)
(* true.                                                                   *)
(***************************************************************************)
\* both pushes have passed their full check with the same current_tail
SameSlot ==
    /\ prod.pc \in {"write", "publish"}
    /\ shut.pc \in {"write", "publish"}
    /\ prod.current_tail = shut.current_tail

\* the events from head to tail
QueueContents == [ i \in 1 .. size(Queue) |-> buffer[Mask(head + i - 1)] ]

C32_StopPushRace ==
    /\ ~SameSlot
    /\ (prod.pc = "idle" /\ shut.pc = "idle" /\ cons.pc = "idle")
         => popped \o QueueContents = pushed

(***************************************************************************)
(* C33: with the worker thread scheduled fairly, a stop() that has stored  *)
(* running_ = false returns, the worker having left its loop and been      *)
(* joined, whether or not the queue took the SHUTDOWN event; and every     *)
(* event the queue accepted is dispatched once the engine is running.      *)
(***************************************************************************)
\* the k-th accepted event, for every k the client can reach
LifeEvents == 1 .. (MaxDrainCancels + MaxCycles)

C33_StopReturns ==
    /\ (control = "pushing") ~> (control = "idle" /\ worker = "none")
    /\ \A k \in LifeEvents :
         (running /\ worker = "running" /\ Len(pushed) >= k)
             ~> (Len(popped) >= k)

\* a stop() has returned whose SHUTDOWN push found the queue full: the queue
\* never took a SHUTDOWN event, and everything it took was dispatched
C33_Witness ==
    /\ stops >= 1
    /\ control = "idle" /\ worker = "none"
    /\ Len(pushed) = Size - 1
    /\ popped = pushed
    /\ \A i \in 1 .. Len(pushed) : pushed[i].type # "SHUTDOWN"

(***************************************************************************)
(* C34: the order-update callback fires only for the incoming order of a   *)
(* NEW_ORDER or REPLACE_ORDER event, once, as the last thing the event     *)
(* does: a step that dispatches a CANCEL_ORDER (or SHUTDOWN) event fires   *)
(* none, no other step fires any, and an order whose status an event       *)
(* changes while it rests (matched or cancelled) is not reported by it.    *)
(***************************************************************************)
\* the orders, other than the incoming one, whose status the step changes
ChangedResting ==
    { log'.status_changes[i].id :
        i \in (Len(log.status_changes) + 1) .. Len(log'.status_changes) }
    \ (IF Dispatched.type \in {"NEW_ORDER", "REPLACE_ORDER"}
       THEN {Dispatched.order} ELSE {})

\* the callbacks the step fires
NewUpdates == SubSeq(updates', Len(updates) + 1, Len(updates'))

C34_UpdateOnlyIncoming ==
    [][ /\ SubSeq(updates', 1, Len(updates)) = updates
        /\ IF Dispatching /\ Dispatched.type \in {"NEW_ORDER", "REPLACE_ORDER"}
           THEN /\ Len(NewUpdates) = 1
                /\ NewUpdates[1].id = Dispatched.order
           ELSE NewUpdates = << >>
        /\ Dispatching =>
             \A o \in ChangedResting :
                 \A i \in 1 .. Len(NewUpdates) : NewUpdates[i].id # o
      ]_vars

\* the callback saw two orders NEW that rested; later events have filled one
\* of them and cancelled the other, and a CANCEL_ORDER event was dispatched
C34_Witness ==
    /\ stops = 0
    /\ log.events > Len(updates)
    /\ \E i, j \in 1 .. Len(updates) :
         /\ updates[i].status = "NEW"
         /\ orders[updates[i].id].status = "FILLED"
         /\ updates[j].status = "NEW"
         /\ orders[updates[j].id].status = "CANCELLED"
    /\ \A i \in 1 .. Len(updates) : updates[i].id = i

(***************************************************************************)
(* C35: try_match never reads a price level through its pointer after the  *)
(* level was erased from its map: once remove_order has erased the level   *)
(* that the filled resting order emptied, the pointer taken at the start   *)
(* of the step is not used again.                                          *)
(***************************************************************************)
C35_NoStaleLevelRead == log.stale_level_reads = 0

====
